---- MODULE Spec2Model ----
(***************************************************************************)
(* Model of backend/app.py: the projects / steps / website_summaries /     *)
(* contexts tables, the create_project and process_step request handlers,  *)
(* the prompt template registry (generate_prompt), the website signal      *)
(* extractor (fetch_website_data) and the marker-based summary extraction. *)
(*                                                                         *)
(* Text is modelled as a sequence of tokens.  A token is one character     *)
(* where the code looks at characters (the completion text searched for    *)
(* the two markers) and an opaque chunk of literal text elsewhere.         *)
(***************************************************************************)
EXTENDS Integers, Sequences, FiniteSets, TLC

VARIABLES
    db,     \* the committed rows: [projects, steps, website_summaries, contexts]
    last,   \* the request served last and the response it got
    probe   \* the input fixed for a whole behaviour by the function-level specifications

vars == <<db, last, probe>>

---------------------------------------------------------------------------
(* Bounds of the model *)

MaxProjects == 2        \* create_project is served at most this many times
MaxRows == 2            \* the store accepts this many Step rows, then every commit fails
MaxLen == 6             \* longest completion text of SummarySpec
MaxProbeStep == 12      \* RenderSpec renders steps 0 .. MaxProbeStep

---------------------------------------------------------------------------
(* Text helpers: str.find, slicing, str.strip, str.join *)

Min(S) == CHOOSE x \in S : \A y \in S : x <= y
Max(S) == CHOOSE x \in S : \A y \in S : x >= y

Whitespace == {" ", "\n", "\t"}

\* s.find(m): the lowest 0-based index at which m occurs in s, -1 when it does not
Find(s, m) ==
    LET hits == {i \in 0..(Len(s) - Len(m)) : SubSeq(s, i + 1, i + Len(m)) = m}
    IN IF hits = {} THEN -1 ELSE Min(hits)

\* where a slice bound lands in a text of length n (negative bounds count from the end)
SliceIndex(i, n) == IF i < 0 THEN (IF i + n < 0 THEN 0 ELSE i + n)
                    ELSE (IF i > n THEN n ELSE i)

\* s[a:b]
Slice(s, a, b) ==
    LET lo == SliceIndex(a, Len(s))
        hi == SliceIndex(b, Len(s))
    IN IF lo < hi THEN SubSeq(s, lo + 1, hi) ELSE <<>>

\* s.strip()
Strip(s) ==
    LET keep == {i \in 1..Len(s) : s[i] \notin Whitespace}
    IN IF keep = {} THEN <<>> ELSE SubSeq(s, Min(keep), Max(keep))

---------------------------------------------------------------------------
(* Contexts: mappings from key names to text *)

EmptyContext == <<>>

Step1Keys == {"url", "title", "meta_description", "h1_tags", "h2_tags",
              "ga_tag", "fb_pixel", "full_html"}

DependencyKeys == {"website_summary", "audit_results", "keyword_research",
                   "previous_steps"}

CallerValue == <<"caller">>

\* dict.update(other) and dict[key] = value: the right operand wins
Update(context, other) == other @@ context

---------------------------------------------------------------------------
(* fetch_website_data *)

FetchErrorText == <<"fetch failed">>

\* what requests.get can do: raise, or return a page
FetchResponses ==
    { [raised |-> TRUE,  has_title |-> FALSE, has_meta |-> FALSE, ga |-> FALSE, fb |-> FALSE],
      [raised |-> FALSE, has_title |-> FALSE, has_meta |-> TRUE,  ga |-> FALSE, fb |-> TRUE] }

NoFetch == [raised |-> FALSE, has_title |-> FALSE, has_meta |-> FALSE, ga |-> FALSE, fb |-> FALSE]

fetch_website_data(url, response) ==
    IF response.raised
    THEN [error |-> FetchErrorText]
    ELSE [url |-> url,
          title |-> IF response.has_title THEN <<"page title">> ELSE <<"No title found">>,
          meta_description |-> IF response.has_meta THEN <<"page description">>
                               ELSE <<"No meta description found">>,
          h1_tags |-> <<"[h1]">>,
          h2_tags |-> <<"[h2]">>,
          ga_tag |-> IF response.ga THEN <<"Google Analytics tag found">>
                     ELSE <<"No Google Analytics tag found">>,
          fb_pixel |-> IF response.fb THEN <<"Facebook Pixel found">>
                       ELSE <<"No Facebook Pixel found">>,
          full_html |-> <<"<html>">>]

---------------------------------------------------------------------------
(* generate_prompt: the template registry and str.format over the context *)

Lit(text) == [lit |-> text]
Field(name) == [field |-> name]
IsField(piece) == "field" \in DOMAIN piece

\* prompts: step number -> template, a template being literal text and {placeholders}.
\* The doubled braces of template 3 are literal text to str.format.
prompts ==
    << << Lit("Perform an audit ... URL: "), Field("url"),
          Lit(" Title: "), Field("title"),
          Lit(" Meta Description: "), Field("meta_description"),
          Lit(" H1 Tags: "), Field("h1_tags"),
          Lit(" H2 Tags: "), Field("h2_tags"),
          Lit(" Google Analytics: "), Field("ga_tag"),
          Lit(" Facebook Pixel: "), Field("fb_pixel"),
          Lit(" Additional HTML content: "), Field("full_html"),
          Lit(" Please structure your response as follows: 1. Website Summary: ... 2. SEO Audit: ...") >>,
       << Lit("Based on the following website summary ... Website Summary: "), Field("website_summary"),
          Lit(" Audit Results: "), Field("audit_results") >>,
       << Lit("Create a list of unique value propositions ... {market} ... Information: "),
          Field("previous_steps") >>,
       << Lit("Perform keyword research ... Previous context: "), Field("previous_steps"),
          Lit(" Format your response as follows: ...") >>,
       << Lit("Create a detailed content marketing plan ... Keyword research results: "),
          Field("keyword_research"),
          Lit(" Previous context: "), Field("previous_steps") >>,
       << Lit("... create a list of lead magnets ... Context: "), Field("previous_steps") >>,
       << Lit("Create a detailed email marketing plan ... context: "), Field("previous_steps") >>,
       << Lit("Create a plan for content and emails ... context: "), Field("previous_steps") >>,
       << Lit("Create a point-by-point report ... Context: "), Field("previous_steps") >>,
       << Lit("Give me a list of ideas for other income streams ... Context: "),
          Field("previous_steps") >> >>

\* prompts.get(step, "")
TemplateOf(step) == IF step \in DOMAIN prompts THEN prompts[step] ELSE <<>>

RECURSIVE Format(_, _)
Format(template, context) ==
    IF template = <<>> THEN <<>>
    ELSE (IF IsField(Head(template)) THEN context[Head(template).field]
          ELSE <<Head(template).lit>>) \o Format(Tail(template), context)

\* a variant that renders an absent key as empty text instead of raising
generate_prompt_defaulting(step, context) ==
    LET template == TemplateOf(step)
        absent == {template[i].field : i \in {j \in DOMAIN template : IsField(template[j])}}
                      \ DOMAIN context
    IN [raised |-> FALSE, key |-> "",
        prompt |-> Format(template, Update(context, [k \in absent |-> <<>>]))]

\* a variant that looks the template up with prompts[step]
generate_prompt_indexing(step, context) ==
    LET template == TemplateOf(step)
        absent == {i \in DOMAIN template :
                      IsField(template[i]) /\ template[i].field \notin DOMAIN context}
    IN IF step \notin DOMAIN prompts
       THEN [raised |-> TRUE, key |-> "step", prompt |-> <<>>]
       ELSE IF absent # {}
       THEN [raised |-> TRUE, key |-> template[Min(absent)].field, prompt |-> <<>>]
       ELSE [raised |-> FALSE, key |-> "", prompt |-> Format(template, context)]

\* raises KeyError(key) for the first placeholder the context has no key for
generate_prompt(step, context) ==
    LET template == TemplateOf(step)
        absent == {i \in DOMAIN template :
                      IsField(template[i]) /\ template[i].field \notin DOMAIN context}
    IN IF absent # {}
       THEN [raised |-> TRUE, key |-> template[Min(absent)].field, prompt |-> <<>>]
       ELSE [raised |-> FALSE, key |-> "", prompt |-> Format(template, context)]

---------------------------------------------------------------------------
(* The tables *)

EmptyDb == [projects |-> <<>>, steps |-> <<>>, website_summaries |-> <<>>, contexts |-> <<>>]

\* Project(name=..., website_url=...): the primary key is the next integer
Project(id, name, website_url) == [id |-> id, name |-> name, website_url |-> website_url]

\* Step(project_id=..., step_number=step, title=f"Step {step}", content=result)
Step(project_id, step, result) ==
    [project_id |-> project_id, step_number |-> step, title |-> <<"Step", step>>, content |-> result]

\* WebsiteSummary(project_id=..., content=website_summary)
WebsiteSummary(project_id, content) == [project_id |-> project_id, content |-> content]

\* Context(project_id=..., step_number=step, content=context)
Context(project_id, step, context) ==
    [project_id |-> project_id, step_number |-> step, content |-> context]

\* Project.query.get(project_id): the project with that key, if any
ProjectGet(projects, project_id) ==
    {projects[i] : i \in {j \in DOMAIN projects : projects[j].id = project_id}}

\* a variant of the query that leaves the project filter out
StepQueryFirstAnyProject(steps, project_id, step_number) ==
    LET rows == {i \in DOMAIN steps : steps[i].step_number = step_number}
    IN IF rows = {} THEN {<<>>} ELSE {<<steps[i]>> : i \in rows}

\* Step.query.filter_by(project_id=..., step_number=...).first(): the query has no
\* ORDER BY, so with several matching rows the store may return any of them.
\* The set of possible results, <<>> standing for None.
StepQueryFirst(steps, project_id, step_number) ==
    LET rows == {i \in DOMAIN steps : /\ steps[i].project_id = project_id
                                      /\ steps[i].step_number = step_number}
    IN IF rows = {} THEN {<<>>} ELSE {<<steps[i]>> : i \in rows}

\* previous_step.content if previous_step else ''
ContentOrEmpty(previous_step) == IF previous_step = <<>> THEN <<>> ELSE previous_step[1].content

---------------------------------------------------------------------------
(* Summary extraction *)

WebsiteSummaryMarker == <<"W", ":">>      \* stands for "Website Summary:"
SeoAuditMarker == <<"2", ":">>            \* stands for "2. SEO Audit:"

\* a variant that searches for the end marker from the right (rfind)
ExtractSummaryLastMarker(result) ==
    LET summary_start == Find(result, WebsiteSummaryMarker) + Len(WebsiteSummaryMarker)
        ends == {i \in 0..(Len(result) - Len(SeoAuditMarker)) :
                    SubSeq(result, i + 1, i + Len(SeoAuditMarker)) = SeoAuditMarker}
        summary_end == IF ends = {} THEN -1 ELSE Max(ends)
    IN Strip(Slice(result, summary_start, summary_end))

ExtractSummary(result) ==
    LET summary_start == Find(result, WebsiteSummaryMarker) + Len(WebsiteSummaryMarker)
        summary_end == Find(result, SeoAuditMarker)
    IN Strip(Slice(result, summary_start, summary_end))

---------------------------------------------------------------------------
(* The session: rows added with db.session.add, then commit or rollback *)

\* the rows process_step adds to the session before it commits
SessionAdds(project_id, step, result, context) ==
    [steps |-> <<Step(project_id, step, result)>>,
     website_summaries |-> IF step = 1
                           THEN <<WebsiteSummary(project_id, ExtractSummary(result))>>
                           ELSE <<>>,
     contexts |-> <<Context(project_id, step, context)>>]

\* website_summaries.project_id is unique
UniqueViolation(tables, pending) ==
    \E i \in DOMAIN tables.website_summaries, j \in DOMAIN pending.website_summaries :
        tables.website_summaries[i].project_id = pending.website_summaries[j].project_id

Appended(tables, pending) ==
    [projects |-> tables.projects,
     steps |-> tables.steps \o pending.steps,
     website_summaries |-> tables.website_summaries \o pending.website_summaries,
     contexts |-> tables.contexts \o pending.contexts]

\* a variant in which every add is committed on its own (autocommit): the rows
\* written before the failing one stay
CommitEachAdd(tables, pending, store_ok) ==
    IF ~store_ok THEN [error |-> "OperationalError", db |-> tables]
    ELSE IF UniqueViolation(tables, pending)
    THEN [error |-> "IntegrityError",
          db |-> [tables EXCEPT !.steps = tables.steps \o pending.steps]]
    ELSE [error |-> "", db |-> Appended(tables, pending)]

\* a variant over a table without the unique constraint
CommitWithoutUnique(tables, pending, store_ok) ==
    IF ~store_ok THEN [error |-> "OperationalError", db |-> tables]
    ELSE [error |-> "", db |-> Appended(tables, pending)]

\* a variant that overwrites the Step row of the same project and step number
CommitUpsertStep(tables, pending, store_ok) ==
    IF ~store_ok THEN [error |-> "OperationalError", db |-> tables]
    ELSE IF UniqueViolation(tables, pending) THEN [error |-> "IntegrityError", db |-> tables]
    ELSE LET new == pending.steps[1]
             same == {i \in DOMAIN tables.steps :
                         /\ tables.steps[i].project_id = new.project_id
                         /\ tables.steps[i].step_number = new.step_number}
         IN [error |-> "",
             db |-> IF same = {} THEN Appended(tables, pending)
                    ELSE [Appended(tables, [pending EXCEPT !.steps = <<>>])
                             EXCEPT !.steps[Min(same)] = new]]

\* db.session.commit(), and the db.session.rollback() of the handler when it raises:
\* either every pending row is committed or none is.
Commit(tables, pending, store_ok) ==
    IF ~store_ok THEN [error |-> "OperationalError", db |-> tables]
    ELSE IF UniqueViolation(tables, pending) THEN [error |-> "IntegrityError", db |-> tables]
    ELSE [error |-> "", db |-> Appended(tables, pending)]

---------------------------------------------------------------------------
(* Requests and responses *)

\* what the handler answered, with what it did on the way
Response(op, status, error, key, project_id, step, context, fetched, called, result) ==
    [op |-> op, status |-> status, error |-> error, key |-> key,
     project_id |-> project_id, step |-> step, context |-> context,
     fetched |-> fetched, called |-> called, result |-> result]

NoResponse == Response("none", 0, "", "", 0, 0, EmptyContext, "none", FALSE, <<>>)

\* a variant that raises inside the try block, so that the handler answers 500
NotFoundRaised(project_id, step, context) ==
    Response("process_step", 500, "Project not found", "", project_id, step, context,
             "none", FALSE, <<>>)

\* return jsonify({"error": "Project not found"}), 404
NotFound(project_id, step, context) ==
    Response("process_step", 404, "Project not found", "", project_id, step, context,
             "none", FALSE, <<>>)

\* the except branch: rollback, then jsonify({"error": str(e), ...}), 500
ServerError(error, key, project_id, step, context, fetched, called, result) ==
    Response("process_step", 500, error, key, project_id, step, context, fetched, called, result)

\* return jsonify({"response": result, "context": context})
Success(project_id, step, context, fetched, result) ==
    Response("process_step", 200, "", "", project_id, step, context, fetched, TRUE, result)

\* the enrichment branch of process_step
Enrich(step, context, project, response, previous_step) ==
    IF step = 1 THEN Update(context, fetch_website_data(project.website_url, response))
    ELSE IF step = 2 THEN Update(context, [audit_results |-> ContentOrEmpty(previous_step)])
    ELSE IF step = 5 THEN Update(context, [keyword_research |-> ContentOrEmpty(previous_step)])
    ELSE context

\* what the query of the step 2 / step 5 branch can return (no query in the other branches)
PreviousStepResults(steps, project_id, step) ==
    IF step = 2 THEN StepQueryFirst(steps, project_id, 1)
    ELSE IF step = 5 THEN StepQueryFirst(steps, project_id, 4)
    ELSE {<<>>}

---------------------------------------------------------------------------
(* Inputs *)

ProjectIds == 1..MaxProjects

\* The step numbers requested: the fetching step 1, the two steps with an injected
\* dependency (2 and 5), the step 5 depends on (4), a step with neither (3), and a
\* number outside the registry.  Steps 6..10 take the branch of step 3 in
\* process_step and their templates hold the placeholder of template 3 alone;
\* RenderSpec renders every template.
StepNumbers == {1, 2, 3, 4, 5, Len(prompts) + 1}

FullContext == [k \in Step1Keys \cup DependencyKeys |-> CallerValue]

CallerContexts == {EmptyContext, FullContext}

CompletionTexts == { <<"W", ":", " ", "a", " ", "2", ":">>, <<"b">> }

\* client.chat.completions.create: raises, or answers with a text
CompletionResponses ==
    {[raised |-> TRUE, text |-> <<>>]} \cup {[raised |-> FALSE, text |-> t] : t \in CompletionTexts}

\* the store can fail any commit; it accepts no commit once MaxRows Step rows are held
StoreOutcomes(tables) == {FALSE} \cup (IF Len(tables.steps) < MaxRows THEN {TRUE} ELSE {})

---------------------------------------------------------------------------
(* The handlers *)

\* POST /api/projects
CreateProject(name, website_url, store_ok) ==
    /\ Len(db.projects) < MaxProjects
    /\ LET id == Len(db.projects) + 1
       IN IF store_ok
          THEN /\ db' = [db EXCEPT !.projects = Append(@, Project(id, name, website_url))]
               /\ last' = Response("create_project", 201, "", "", id, 0, EmptyContext,
                                   "none", FALSE, <<>>)
          ELSE /\ db' = db
               /\ last' = Response("create_project", 500, "OperationalError", "", 0, 0,
                                   EmptyContext, "none", FALSE, <<>>)
    /\ UNCHANGED probe

\* POST /api/process.  fetches and completions are what the web fetcher and the
\* completion service can answer in this request; they are asked only where the
\* code calls them.
ProcessStep(project_id, step, context, fetches, completions) ==
    /\ LET found == ProjectGet(db.projects, project_id)
       IN IF found = {}
          THEN /\ last' = NotFound(project_id, step, context)
               /\ db' = db
          ELSE \E project \in found,
                  response \in (IF step = 1 THEN fetches ELSE {NoFetch}),
                  previous_step \in PreviousStepResults(db.steps, project_id, step) :
               LET enriched == Enrich(step, context, project, response, previous_step)
                   fetched == IF step # 1 THEN "none"
                              ELSE IF response.raised THEN "error" ELSE "ok"
                   rendered == generate_prompt(step, enriched)
               IN IF rendered.raised
                  THEN /\ last' = ServerError("KeyError", rendered.key, project_id, step,
                                              enriched, fetched, FALSE, <<>>)
                       /\ db' = db
                  ELSE \E completion \in completions :
                       IF completion.raised
                       THEN /\ last' = ServerError("APIError", "", project_id, step,
                                                   enriched, fetched, TRUE, <<>>)
                            /\ db' = db
                       ELSE \E store_ok \in StoreOutcomes(db) :
                            LET result == completion.text
                                committed == Commit(db, SessionAdds(project_id, step, result,
                                                                    enriched), store_ok)
                            IN IF committed.error # ""
                               THEN /\ last' = ServerError(committed.error, "", project_id, step,
                                                           enriched, fetched, TRUE, result)
                                    /\ db' = committed.db
                               ELSE /\ last' = Success(project_id, step, enriched, fetched,
                                                       result)
                                    /\ db' = committed.db
    /\ UNCHANGED probe

---------------------------------------------------------------------------
(* The service: any sequence of create_project and process_step requests *)

Init ==
    /\ db = EmptyDb
    /\ last = NoResponse
    /\ probe = [kind |-> "none"]

CreateProjectRequest ==
    \E store_ok \in BOOLEAN : CreateProject(<<"name">>, <<"url">>, store_ok)

ProcessStepRequest ==
    \E project_id \in ProjectIds, step \in StepNumbers, context \in CallerContexts :
        ProcessStep(project_id, step, context, FetchResponses, CompletionResponses)

Next == CreateProjectRequest \/ ProcessStepRequest

Spec == Init /\ [][Next]_vars

---------------------------------------------------------------------------
(* generate_prompt on its own: every step number 0 .. MaxProbeStep, every set of keys *)

ProbeKeys == Step1Keys \cup DependencyKeys \cup {"error"}

ProbeContexts == {[k \in keys |-> CallerValue] : keys \in SUBSET ProbeKeys}

RenderInit ==
    /\ db = EmptyDb
    /\ last = NoResponse
    /\ probe \in {[kind |-> "render", step |-> n, context |-> c, done |-> FALSE,
                   out |-> [raised |-> FALSE, key |-> "", prompt |-> <<>>]] :
                     n \in 0..MaxProbeStep, c \in ProbeContexts}

Render ==
    /\ ~probe.done
    /\ probe' = [probe EXCEPT !.done = TRUE,
                              !.out = generate_prompt(probe.step, probe.context)]
    /\ UNCHANGED <<db, last>>

RenderSpec == RenderInit /\ [][Render]_vars

---------------------------------------------------------------------------
(* Step 1 on a store holding one project, for every completion text of up to    *)
(* MaxLen characters over the characters of the two markers, a blank and a letter *)

Alphabet == {"W", ":", "2", " ", "a"}

Texts == UNION {[1..n -> Alphabet] : n \in 0..MaxLen}

WebsitePage == [raised |-> FALSE, has_title |-> TRUE, has_meta |-> FALSE, ga |-> TRUE, fb |-> FALSE]

SummaryInit ==
    /\ db = [EmptyDb EXCEPT !.projects = <<Project(1, <<"name">>, <<"url">>)>>]
    /\ last = NoResponse
    /\ probe \in {[kind |-> "completion", text |-> t] : t \in Texts}

SummaryRequest ==
    ProcessStep(1, 1, EmptyContext, {WebsitePage}, {[raised |-> FALSE, text |-> probe.text]})

SummarySpec == SummaryInit /\ [][SummaryRequest]_vars

---------------------------------------------------------------------------
(* Properties *)

Served == last.op = "process_step"

ProjectExists(project_id) == \E i \in DOMAIN db.projects : db.projects[i].id = project_id

\* the contents persisted for a step of a project; the empty text when there is none
PersistedContents(project_id, step_number) ==
    LET rows == {i \in DOMAIN db.steps : /\ db.steps[i].project_id = project_id
                                         /\ db.steps[i].step_number = step_number}
    IN IF rows = {} THEN {<<>>} ELSE {db.steps[i].content : i \in rows}

\* the placeholder names of a template of the registry
Placeholders(step) ==
    {prompts[step][i].field : i \in {j \in DOMAIN prompts[step] : IsField(prompts[step][j])}}

\* C1: a process_step request that fails leaves every table as it was; one that
\* succeeds commits its Step row, its Context row and, for step 1, its
\* WebsiteSummary row together, and nothing else.
AllOrNothing ==
    [][ last'.op = "process_step" =>
          IF last'.status = 200
          THEN /\ db'.projects = db.projects
               /\ db'.steps = Append(db.steps, [project_id |-> last'.project_id,
                                                step_number |-> last'.step,
                                                title |-> <<"Step", last'.step>>,
                                                content |-> last'.result])
               /\ db'.contexts = Append(db.contexts, [project_id |-> last'.project_id,
                                                      step_number |-> last'.step,
                                                      content |-> last'.context])
               /\ IF last'.step = 1
                  THEN /\ Len(db'.website_summaries) = Len(db.website_summaries) + 1
                       /\ SubSeq(db'.website_summaries, 1, Len(db.website_summaries))
                             = db.website_summaries
                       /\ db'.website_summaries[Len(db'.website_summaries)].project_id
                             = last'.project_id
                  ELSE db'.website_summaries = db.website_summaries
          ELSE db' = db ]_vars

\* C1 witness: the completion service failed in a step-1 request on a store that
\* already holds rows.
CompletionFailedAfterCommits ==
    /\ Served /\ last.status = 500 /\ last.error = "APIError" /\ last.called
    /\ last.step = 1
    /\ Len(db.steps) > 0 /\ Len(db.contexts) > 0

\* the newline-joined contents of steps 1..n of a project, one text for every choice
\* among the rows persisted for a step
RECURSIVE JoinedHistory(_, _)
JoinedHistory(project_id, n) ==
    IF n = 0 THEN {<<>>}
    ELSE IF n = 1 THEN PersistedContents(project_id, 1)
    ELSE {h \o <<"\n">> \o c : h \in JoinedHistory(project_id, n - 1),
                               c \in PersistedContents(project_id, n)}

\* C2: for step >= 2 on an existing project the enriched context holds
\* previous_steps, the newline-joined persisted contents of steps 1..step-1 in
\* ascending order, with the empty text for a step never persisted.
PreviousStepsInjected ==
    (Served /\ ProjectExists(last.project_id) /\ last.step >= 2) =>
        /\ "previous_steps" \in DOMAIN last.context
        /\ last.context["previous_steps"] \in JoinedHistory(last.project_id, last.step - 1)

\* C3: in a step-2 (step-5) request on an existing project the enriched context
\* holds audit_results (keyword_research), equal to a content persisted for step 1
\* (step 4) of that project, and to the empty text when none is persisted.
DependencyInjected ==
    (Served /\ ProjectExists(last.project_id)) =>
        /\ last.step = 2 =>
              /\ "audit_results" \in DOMAIN last.context
              /\ last.context["audit_results"] \in PersistedContents(last.project_id, 1)
        /\ last.step = 5 =>
              /\ "keyword_research" \in DOMAIN last.context
              /\ last.context["keyword_research"] \in PersistedContents(last.project_id, 4)

\* C3 witness: step 5 after two runs of step 4 with different answers, the caller
\* having supplied its own keyword_research.
StepFiveAfterRepeatedStepFour ==
    /\ Served /\ last.step = 5 /\ ProjectExists(last.project_id)
    /\ Cardinality(PersistedContents(last.project_id, 4)) = 2
    /\ "previous_steps" \in DOMAIN last.context
    /\ last.context["previous_steps"] = CallerValue
    /\ last.context["keyword_research"] # CallerValue
    /\ last.called

\* C4: when the enriched context lacks a placeholder key of the template of a step
\* in 1..10, the request is answered with an error, the completion service is not
\* called and no row is committed.
MissingKeyFailsStep ==
    [][ ( /\ last'.op = "process_step"
          /\ \E i \in DOMAIN db.projects : db.projects[i].id = last'.project_id
          /\ last'.step \in 1..10
          /\ Placeholders(last'.step) \ DOMAIN last'.context # {} )
        => /\ last'.status = 500
           /\ last'.error = "KeyError"
           /\ last'.key \in Placeholders(last'.step) \ DOMAIN last'.context
           /\ ~last'.called
           /\ db' = db ]_vars

\* C4 witness: step 5 with keyword_research injected and previous_steps absent.
StepFiveWithoutPreviousSteps ==
    /\ Served /\ last.step = 5 /\ last.status = 500
    /\ last.error = "KeyError" /\ last.key = "previous_steps"
    /\ "keyword_research" \in DOMAIN last.context
    /\ Len(db.steps) > 0

\* C5: a failed website fetch in step 1 fails the step with the fetch error
\* message, without calling the completion service and without committing a row.
FetchFailureFailsStep ==
    [][ (last'.op = "process_step" /\ last'.fetched = "error")
        => /\ last'.status = 500
           /\ last'.error = FetchErrorText[1]
           /\ ~last'.called
           /\ db' = db ]_vars

\* C6: every project has at most one WebsiteSummary row.
OneSummaryPerProject ==
    \A i, j \in DOMAIN db.website_summaries :
        db.website_summaries[i].project_id = db.website_summaries[j].project_id => i = j

\* C6 witness: step 1 run again for a project that has its summary, answered by the
\* completion service both times.
StepOneRunAgain ==
    /\ Served /\ last.step = 1 /\ last.called /\ last.result \in CompletionTexts
    /\ last.status = 500 /\ last.error = "IntegrityError"
    /\ \E i \in DOMAIN db.website_summaries :
          db.website_summaries[i].project_id = last.project_id

\* C7: a request for a project id that matches no project is answered 404
\* "Project not found" before any fetch, completion call or write, and a render
\* failure is answered 500.
UnknownProjectNotFound ==
    [][ /\ ( /\ last'.op = "process_step"
             /\ \A i \in DOMAIN db.projects : db.projects[i].id # last'.project_id )
           => /\ last'.status = 404
              /\ last'.error = "Project not found"
              /\ last'.fetched = "none"
              /\ ~last'.called
              /\ db' = db
        /\ (last'.op = "process_step" /\ last'.error = "KeyError") => last'.status = 500
      ]_vars

\* C7 witness: a project exists, the one requested does not.
UnknownProjectRequested ==
    /\ Served /\ last.status = 404
    /\ Len(db.projects) > 0 /\ ~ProjectExists(last.project_id)
    /\ Len(db.steps) > 0

\* C8: for a step number outside 1..10 generate_prompt returns the empty string and
\* does not raise, whatever the keys of the context.
UnknownStepRendersEmpty ==
    (probe.kind = "render" /\ probe.done /\ probe.step \notin 1..10) =>
        /\ ~probe.out.raised
        /\ probe.out.prompt = <<>>

\* C8 witness: step 11 rendered with a context that holds previous_steps.
UnknownStepRendered ==
    /\ probe.kind = "render" /\ probe.done /\ probe.step = 11
    /\ "previous_steps" \in DOMAIN probe.context

\* the 0-based indices at which a marker occurs in a text
Occurrences(text, marker) ==
    {i \in 0..(Len(text) - Len(marker)) :
        \A k \in 1..Len(marker) : text[i + k] = marker[k]}

\* t is s without its leading and trailing whitespace
IsTrimOf(t, s) ==
    /\ t = <<>> \/ (t[1] \notin Whitespace /\ t[Len(t)] \notin Whitespace)
    /\ \E a \in 0..Len(s) :
          /\ a + Len(t) <= Len(s)
          /\ \A k \in 1..Len(t) : s[a + k] = t[k]
          /\ \A k \in 1..Len(s) : (k <= a \/ k > a + Len(t)) => s[k] \in Whitespace

\* the characters of a text from 0-based index lo up to, not including, index hi
Between(text, lo, hi) == [k \in 1..(IF hi > lo THEN hi - lo ELSE 0) |-> text[lo + k]]

\* C9: after a successful step 1 whose completion text holds "Website Summary:"
\* followed later by "2. SEO Audit:", the WebsiteSummary row holds the text between
\* the first occurrence of the one and the first occurrence of the other, trimmed.
SummaryBetweenMarkers ==
    (Served /\ last.status = 200 /\ last.step = 1) =>
        LET text == last.result
            starts == Occurrences(text, WebsiteSummaryMarker)
            ends == Occurrences(text, SeoAuditMarker)
            row == db.website_summaries[Len(db.website_summaries)]
        IN (\E a \in starts, b \in ends : b >= a + Len(WebsiteSummaryMarker)) =>
              /\ row.project_id = last.project_id
              /\ IsTrimOf(row.content,
                          Between(text, Min(starts) + Len(WebsiteSummaryMarker), Min(ends)))

\* C9 witness: "Website Summary: a2. SEO Audit:" stored as "a".
SummaryStored ==
    /\ Served /\ last.status = 200 /\ last.step = 1
    /\ last.result = <<"W", ":", " ", "a", "2", ":">>
    /\ Len(db.website_summaries) = 1
    /\ db.website_summaries[1].content = <<"a">>

\* C10: no request changes or removes a committed Step row; a successful
\* process_step adds exactly one Step row, holding the completion text, and no
\* other request adds one.
StepRowsAppendOnly ==
    [][ /\ Len(db'.steps) >= Len(db.steps)
        /\ SubSeq(db'.steps, 1, Len(db.steps)) = db.steps
        /\ IF last'.op = "process_step" /\ last'.status = 200
           THEN /\ Len(db'.steps) = Len(db.steps) + 1
                /\ db'.steps[Len(db'.steps)].project_id = last'.project_id
                /\ db'.steps[Len(db'.steps)].step_number = last'.step
                /\ db'.steps[Len(db'.steps)].content = last'.result
           ELSE Len(db'.steps) = Len(db.steps) ]_vars

\* C10 witness: a step other than 1 run twice for a project with different answers,
\* both rows held.
StepRunTwice ==
    /\ Served /\ last.status = 200 /\ last.step # 1
    /\ Len(db.steps) = 2
    /\ db.steps[1].project_id = db.steps[2].project_id
    /\ db.steps[1].step_number = db.steps[2].step_number
    /\ db.steps[1].content # db.steps[2].content

====
